---- MODULE Spec2Model ----
EXTENDS Integers, Sequences, FiniteSets, TLC

(***************************************************************************)
(* Model of the cozo core: rule body compilation (query/compile.rs), the    *)
(* database handle with its scan and query entry points (runtime/db.rs)    *)
(* and the relational algebra parser (algebra/parser.rs).                  *)
(***************************************************************************)

VARIABLES
    \* ---- SessionTx::compile_rule_body ----
    clauses,          \* the atoms of the body consumed so far (a prefix of `clauses`)
    ret_vars,         \* the requested return variables
    ret,              \* the relation built so far
    seen_variables,   \* BTreeSet of the variables seen so far
    id_serial,        \* counter of gen_temp_kw
    c_pc,             \* "loop" while atoms are consumed, "done" after return / abort
    c_result,         \* "none", "Ok", an error name, or "panic"
    c_err,            \* the rule name carried by UndefinedRule / ArityMismatch
    c_unbound,        \* the keyword set carried by UnsafeUnboundVars
    \* ---- Db handles, transactions and the primary store ----
    atomics,          \* the AtomicU64 cells behind the Arc<..> last_tx_id fields
    n_sessions,       \* the shared n_sessions counter
    handles,          \* the Db values: session_id and the cell last_tx_id points to
    th,               \* per thread: the operation it runs, its position and its locals
    committed,        \* the committed content of the primary store, <<tx id, item>>
    issued,           \* history: the set of TxIds handed out by transact_write
    n_issued,         \* history: the number of TxIds handed out
    failed,           \* history: TxIds of the write calls that failed before commit_tx
    commit_ran,       \* history: TxIds whose commit_tx was executed
    \* ---- Db::entities_at over the EAVT entries of the store ----
    eavt,             \* the stored entries: key (e, a, vld, v) and value slot (op, val)
    s_pc,             \* "write": the store is being filled; "scan"; "done"
    s_vld,            \* the as-of validity of the scan
    current,          \* the key buffer `current`
    it,               \* the key the iterator stands on, <<>> when it is exhausted
    collected,        \* the output: per (entity, attribute) the values reported
    \* ---- Db::run_query: entry extraction ----
    q_pc,             \* "start", "evaluated", "done"
    entry_store,      \* the rows of the entry rule's store, in key order
    out_opts,         \* sorters, limit and offset of the query
    eval_limit,       \* the row limit handed to stratified_magic_evaluate
    result,           \* the rows stratified_magic_evaluate returned
    q_out,            \* the rows handed to run_pull_on_query_results
    \* ---- algebra::parser::build_ra_expr ----
    p_pc,             \* "loop" while operators are consumed, "done" after return / abort
    p_chain,          \* the names of the operators consumed so far
    p_args,           \* the arguments of the Values operator that was read
    built,            \* Option<RelationalAlgebra>: the operator built so far
    p_result,         \* "none", "Ok", an error name, or "panic"
    p_err             \* the value carried by ValueError

cvars == <<clauses, ret_vars, ret, seen_variables, id_serial, c_pc, c_result, c_err, c_unbound>>

svars == <<eavt, s_pc, s_vld, current, it, collected>>

dvars == <<atomics, n_sessions, handles, th, committed, issued, n_issued, failed, commit_ran>>

qvars == <<q_pc, entry_store, out_opts, eval_limit, result, q_out>>

pvars == <<p_pc, p_chain, p_args, built, p_result, p_err>>

vars == <<clauses, ret_vars, ret, seen_variables, id_serial, c_pc, c_result, c_err, c_unbound,
          atomics, n_sessions, handles, th, committed, issued, n_issued, failed, commit_ran,
          eavt, s_pc, s_vld, current, it, collected,
          q_pc, entry_store, out_opts, eval_limit, result, q_out,
          p_pc, p_chain, p_args, built, p_result, p_err>>

Range(s) == {s[i] : i \in 1..Len(s)}

\* ------------------------------------------------------------------------
\* Bounds
\* ------------------------------------------------------------------------
MaxAtoms == 2
MaxWriteTx == 3       \* write transactions begun in one run
MaxSessions == 1      \* new_session calls in one run
MaxWrites == 3        \* triples written before the scan
MaxVld == 3           \* validities 1..MaxVld are written and queried
MaxRows == 3          \* rows the entry rule's store may hold
MaxLimit == 2         \* limit and offset are absent or in 0..MaxLimit
MaxFields == 2        \* fields of a Values schema, and elements of a row
MaxDataRows == 2      \* rows of a Values operator
MaxOps == 2           \* operators chained in one ra expression

\* ------------------------------------------------------------------------
\* Keywords.  A keyword is its text, a sequence of characters.
\* ------------------------------------------------------------------------
Digit(d) == <<"0", "1", "2", "3", "4", "5", "6", "7", "8", "9">>[d + 1]

RECURSIVE Decimal(_)
Decimal(n) == IF n < 10 THEN <<Digit(n)>> ELSE Decimal(n \div 10) \o <<Digit(n % 10)>>

GenTempKwUnnumbered(serial) == <<"*">> \o Decimal(0)

\* format!("*{}", id_serial)
gen_temp_kw(serial) == <<"*">> \o Decimal(serial)

VarX == <<"?", "x">>
VarY == <<"?", "y">>
VarZ == <<"?", "z">>

BodyVars == {VarX, VarZ}
HeadVars == {VarX, VarY, VarZ}

\* ------------------------------------------------------------------------
\* Program IR: terms and atoms
\* ------------------------------------------------------------------------
TermVar(k) == [kind |-> "Var", kw |-> k]
TermConst == [kind |-> "Const", kw |-> <<>>]

Terms == {TermVar(k) : k \in BodyVars} \cup {TermConst}

AttrTripleAtom(e, v) ==
    [type |-> "AttrTriple", entity |-> e, value |-> v, name |-> "", args |-> <<>>]

RuleApplyAtom(n, a) ==
    [type |-> "Rule", entity |-> TermConst, value |-> TermConst, name |-> n, args |-> a]

PredicateAtom ==
    [type |-> "Predicate", entity |-> TermConst, value |-> TermConst, name |-> "", args |-> <<>>]

\* stores: rule name -> arity (the TempStore itself plays no part in compilation)
stores == [r \in {"r"} |-> 2]

RuleNames == {"r", "q"}

ArgLists == {<<t>> : t \in Terms} \cup {<<t1, t2>> : t1 \in Terms, t2 \in Terms}

Atoms ==
    {AttrTripleAtom(e, v) : e \in Terms, v \in Terms}
    \cup {RuleApplyAtom("r", a) : a \in ArgLists}
    \cup {RuleApplyAtom("q", a) : a \in {<<TermVar(VarX)>>, <<TermVar(VarX), TermVar(VarZ)>>}}
    \cup {PredicateAtom}

RetVarChoices ==
    {<<a>> : a \in HeadVars}
    \cup {<<a, b>> : a \in HeadVars, b \in HeadVars}

\* ------------------------------------------------------------------------
\* Relation algebra (query/relation.rs)
\* ------------------------------------------------------------------------
NoRel == <<>>

Leaf(k, b) ==
    [kind |-> k, bindings |-> b, left |-> NoRel, right |-> NoRel,
     left_keys |-> <<>>, right_keys |-> <<>>, to_eliminate |-> {}]

RelUnit == Leaf("Fixed", <<>>)
RelSinglet(b) == Leaf("Fixed", b)
RelTriple(e_kw, v_kw) == Leaf("Triple", <<e_kw, v_kw>>)
RelDerived(b) == Leaf("Derived", b)

RelJoin(l, r, lk, rk) ==
    [kind |-> "Join", bindings |-> <<>>, left |-> l, right |-> r,
     left_keys |-> lk, right_keys |-> rk, to_eliminate |-> {}]

RelCartesianJoin(l, r) == RelJoin(l, r, <<>>, <<>>)

RelReorder(r, new_order) ==
    [kind |-> "Reorder", bindings |-> new_order, left |-> r, right |-> NoRel,
     left_keys |-> <<>>, right_keys |-> <<>>, to_eliminate |-> {}]

IsUnit(r) == r.kind = "Fixed" /\ r.bindings = <<>>

Keep(s, set) == SelectSeq(s, LAMBDA k : k \in set)
Drop(s, set) == SelectSeq(s, LAMBDA k : k \notin set)

\* bindings(): the ordered output variables.  For a Join: the left bindings
\* followed by the right bindings that are not right join keys.
RECURSIVE Bindings(_)
Bindings(r) ==
    IF r.kind = "Join"
    THEN Drop(Bindings(r.left) \o Drop(Bindings(r.right), Range(r.right_keys)),
              r.to_eliminate)
    ELSE r.bindings

\* eliminate_temp_vars(used): drop the bindings not in `used`, recursively; the
\* children of a Join keep their join keys.
RECURSIVE EliminateTempVars(_, _)
EliminateTempVars(r, used) ==
    CASE r.kind = "Join" ->
           [r EXCEPT !.to_eliminate = {k \in Range(Bindings(r)) : k \notin used},
                     !.left = EliminateTempVars(r.left, used \cup Range(r.left_keys)),
                     !.right = EliminateTempVars(r.right, used \cup Range(r.right_keys))]
      [] r.kind = "Reorder" ->
           [r EXCEPT !.left = EliminateTempVars(r.left, used)]
      [] OTHER -> [r EXCEPT !.bindings = Keep(r.bindings, used)]

\* ------------------------------------------------------------------------
\* SessionTx::compile_rule_body: one atom
\* ------------------------------------------------------------------------
\* The outcome of one step: the new locals, or an early return / abort.
Step(r, s, n) == [ret |-> r, seen |-> s, serial |-> n, result |-> "none", err |-> ""]
Abort(r, s, n, res, e) == [ret |-> r, seen |-> s, serial |-> n, result |-> res, err |-> e]

BindVarNoTemp(kw, seen, serial) ==
    [kw |-> kw, seen |-> seen \cup {kw}, serial |-> serial, lk |-> <<>>, rk |-> <<>>]

\* A variable position of an atom: a variable already seen gets a fresh temp
\* keyword on the right and one join key pair; a new variable is used as is.
BindVar(kw, seen, serial) ==
    IF kw \in seen
    THEN [kw |-> gen_temp_kw(serial), seen |-> seen, serial |-> serial + 1,
          lk |-> <<kw>>, rk |-> <<gen_temp_kw(serial)>>]
    ELSE [kw |-> kw, seen |-> seen \cup {kw}, serial |-> serial,
          lk |-> <<>>, rk |-> <<>>]

\* ret = const_rel, or ret x const_rel when ret is not the unit relation
WithConst(r, const_rel) == IF IsUnit(r) THEN const_rel ELSE RelCartesianJoin(r, const_rel)

\* (Term::Const(eid), Term::Var(v_kw))
TripleConstVar(r, seen, serial, v_kw) ==
    LET temp_join_key_left == gen_temp_kw(serial)
        temp_join_key_right == gen_temp_kw(serial + 1)
        ret1 == WithConst(r, RelSinglet(<<temp_join_key_left>>))
        b == BindVar(v_kw, seen, serial + 2)
        right == RelTriple(temp_join_key_right, b.kw)
    IN Step(RelJoin(ret1, right, <<temp_join_key_left>> \o b.lk,
                    <<temp_join_key_right>> \o b.rk),
            b.seen, b.serial)

\* (Term::Var(e_kw), Term::Const(val))
TripleVarConst(r, seen, serial, e_kw) ==
    LET temp_join_key_left == gen_temp_kw(serial)
        temp_join_key_right == gen_temp_kw(serial + 1)
        ret1 == WithConst(r, RelSinglet(<<temp_join_key_left>>))
        b == BindVar(e_kw, seen, serial + 2)
        right == RelTriple(b.kw, temp_join_key_right)
    IN Step(RelJoin(ret1, right, <<temp_join_key_left>> \o b.lk,
                    <<temp_join_key_right>> \o b.rk),
            b.seen, b.serial)

\* (Term::Var(e_kw), Term::Var(v_kw)); e_kw == v_kw is unimplemented!()
TripleVarVar(r, seen, serial, e_kw, v_kw) ==
    IF e_kw = v_kw
    THEN Abort(r, seen, serial, "panic", "")
    ELSE LET be == BindVar(e_kw, seen, serial)
             bv == BindVar(v_kw, be.seen, be.serial)
             right == RelTriple(be.kw, bv.kw)
         IN Step(IF IsUnit(r) THEN right
                 ELSE RelJoin(r, right, be.lk \o bv.lk, be.rk \o bv.rk),
                 bv.seen, bv.serial)

\* (Term::Const(eid), Term::Const(val))
TripleConstConst(r, seen, serial) ==
    LET left_var_1 == gen_temp_kw(serial)
        left_var_2 == gen_temp_kw(serial + 1)
        ret1 == WithConst(r, RelSinglet(<<left_var_1, left_var_2>>))
        right_var_1 == gen_temp_kw(serial + 2)
        right_var_2 == gen_temp_kw(serial + 3)
    IN Step(RelJoin(ret1, RelTriple(right_var_1, right_var_2),
                    <<left_var_1, left_var_2>>, <<right_var_1, right_var_2>>),
            seen, serial + 4)

CompileAttrTriple(r, seen, serial, atom) ==
    CASE atom.entity.kind = "Const" /\ atom.value.kind = "Var" ->
           TripleConstVar(r, seen, serial, atom.value.kw)
      [] atom.entity.kind = "Var" /\ atom.value.kind = "Const" ->
           TripleVarConst(r, seen, serial, atom.entity.kw)
      [] atom.entity.kind = "Var" /\ atom.value.kind = "Var" ->
           TripleVarVar(r, seen, serial, atom.entity.kw, atom.value.kw)
      [] OTHER -> TripleConstConst(r, seen, serial)

\* The loop over rule_app.args: `acc` holds the five vectors, seen_variables
\* and id_serial.
ArgAcc0(seen, serial) ==
    [prev_joiner_vars |-> <<>>, temp_left_bindings |-> <<>>,
     right_joiner_vars |-> <<>>, right_vars |-> <<>>,
     seen |-> seen, serial |-> serial]

RuleArgNoJoinKey(acc, term) ==
    IF term.kind = "Var"
    THEN IF term.kw \in acc.seen
         THEN [acc EXCEPT !.right_vars = Append(@, gen_temp_kw(acc.serial)),
                          !.serial = @ + 1]
         ELSE [acc EXCEPT !.seen = @ \cup {term.kw},
                          !.right_vars = Append(@, term.kw)]
    ELSE [acc EXCEPT !.prev_joiner_vars = Append(@, gen_temp_kw(acc.serial)),
                     !.temp_left_bindings = Append(@, gen_temp_kw(acc.serial)),
                     !.right_joiner_vars = Append(@, gen_temp_kw(acc.serial + 1)),
                     !.right_vars = Append(@, gen_temp_kw(acc.serial + 1)),
                     !.serial = @ + 2]

RuleArg(acc, term) ==
    IF term.kind = "Var"
    THEN IF term.kw \in acc.seen
         THEN LET rk == gen_temp_kw(acc.serial)
              IN [acc EXCEPT !.prev_joiner_vars = Append(@, term.kw),
                             !.right_vars = Append(@, rk),
                             !.right_joiner_vars = Append(@, rk),
                             !.serial = @ + 1]
         ELSE [acc EXCEPT !.seen = @ \cup {term.kw},
                          !.right_vars = Append(@, term.kw)]
    ELSE LET left_kw == gen_temp_kw(acc.serial)
             right_kw == gen_temp_kw(acc.serial + 1)
         IN [acc EXCEPT !.prev_joiner_vars = Append(@, left_kw),
                        !.temp_left_bindings = Append(@, left_kw),
                        !.right_joiner_vars = Append(@, right_kw),
                        !.right_vars = Append(@, right_kw),
                        !.serial = @ + 2]

RECURSIVE RuleArgs(_, _)
RuleArgs(acc, args) ==
    IF args = <<>> THEN acc ELSE RuleArgs(RuleArg(acc, Head(args)), Tail(args))

RuleLookupNoArity(name, nargs) ==
    IF name \notin DOMAIN stores THEN "UndefinedRule" ELSE "found"

RuleLookupArityFirst(name, nargs) ==
    IF name \notin DOMAIN stores \/ stores[name] # nargs THEN "ArityMismatch" ELSE "found"

\* stores.get(&name) and the arity check
RuleLookup(name, nargs) ==
    IF name \notin DOMAIN stores THEN "UndefinedRule"
    ELSE IF stores[name] # nargs THEN "ArityMismatch"
    ELSE "found"

CompileRuleApply(r, seen, serial, atom) ==
    LET found == RuleLookup(atom.name, Len(atom.args))
    IN IF found # "found"
       THEN Abort(r, seen, serial, found, atom.name)
       ELSE LET acc == RuleArgs(ArgAcc0(seen, serial), atom.args)
                ret1 == IF acc.temp_left_bindings # <<>>
                        THEN RelCartesianJoin(r, RelSinglet(acc.temp_left_bindings))
                        ELSE r
                right == RelDerived(acc.right_vars)
            IN Step(RelJoin(ret1, right, acc.prev_joiner_vars, acc.right_joiner_vars),
                    acc.seen, acc.serial)

\* Atom::Predicate(_) => todo!()
CompilePredicate(r, seen, serial, atom) == Abort(r, seen, serial, "panic", "")

CompileClause(r, seen, serial, atom) ==
    CASE atom.type = "AttrTriple" -> CompileAttrTriple(r, seen, serial, atom)
      [] atom.type = "Rule" -> CompileRuleApply(r, seen, serial, atom)
      [] OTHER -> CompilePredicate(r, seen, serial, atom)

\* ------------------------------------------------------------------------
\* SessionTx::compile_rule_body: after the loop
\* ------------------------------------------------------------------------
\* let diff = cur_ret_set.sub(&cur_ret_set)
UnboundDiff(cur_ret_set, ret_vars_set) == cur_ret_set \ cur_ret_set

\* if cur_ret_set != ret_vars_set { return Err(UnsafeUnboundVars) }
SetsDisagreeSubsetOnly(cur_ret_set, ret_vars_set) == ~(cur_ret_set \subseteq ret_vars_set)

SetsDisagree(cur_ret_set, ret_vars_set) == cur_ret_set # ret_vars_set

\* ret.eliminate_temp_vars, retried once on ret x unit when the sets disagree
EliminateForReturn(r, ret_vars_set) ==
    LET r1 == EliminateTempVars(r, ret_vars_set)
    IN IF Range(Bindings(r1)) # ret_vars_set
       THEN EliminateTempVars(RelCartesianJoin(r1, RelUnit), ret_vars_set)
       ELSE r1

ReorderNever(r, rv) == r

\* if ret_vars != cur_ret_bindings { ret = ret.reorder(ret_vars.to_vec()) }
ReorderForReturn(r, rv) == IF rv # Bindings(r) THEN RelReorder(r, rv) ELSE r

CompileTail(r, rv) ==
    LET ret_vars_set == Range(rv)
        r2 == EliminateForReturn(r, ret_vars_set)
        cur_ret_set == Range(Bindings(r2))
    IN IF SetsDisagree(cur_ret_set, ret_vars_set)
       THEN [ret |-> r2, result |-> "UnsafeUnboundVars",
             unbound |-> UnboundDiff(cur_ret_set, ret_vars_set)]
       ELSE [ret |-> ReorderForReturn(r2, rv), result |-> "Ok", unbound |-> {}]

\* ------------------------------------------------------------------------
\* Actions of compile_rule_body
\* ------------------------------------------------------------------------
InitCompileVars ==
    /\ clauses = <<>>
    /\ ret = RelUnit
    /\ seen_variables = {}
    /\ id_serial = 0
    /\ c_pc = "loop"
    /\ c_result = "none"
    /\ c_err = ""
    /\ c_unbound = {}

\* one iteration of `for clause in clauses`
CompileNextClause ==
    /\ c_pc = "loop"
    /\ Len(clauses) < MaxAtoms
    /\ \E atom \in Atoms :
         LET st == CompileClause(ret, seen_variables, id_serial, atom)
         IN /\ clauses' = Append(clauses, atom)
            /\ ret' = st.ret
            /\ seen_variables' = st.seen
            /\ id_serial' = st.serial
            /\ c_result' = st.result
            /\ c_err' = st.err
            /\ c_pc' = IF st.result = "none" THEN "loop" ELSE "done"
    /\ UNCHANGED <<ret_vars, c_unbound>>
    /\ UNCHANGED <<dvars, svars, qvars, pvars>>

\* the body is exhausted: lines after the loop
CompileReturn ==
    /\ c_pc = "loop"
    /\ Len(clauses) >= 1
    /\ LET t == CompileTail(ret, ret_vars)
       IN /\ ret' = t.ret
          /\ c_result' = t.result
          /\ c_unbound' = t.unbound
    /\ c_pc' = "done"
    /\ UNCHANGED <<clauses, ret_vars, seen_variables, id_serial, c_err>>
    /\ UNCHANGED <<dvars, svars, qvars, pvars>>

\* ------------------------------------------------------------------------
\* Properties of compile_rule_body
\* ------------------------------------------------------------------------
TermVars(t) == IF t.kind = "Var" THEN {t.kw} ELSE {}

\* the variables an atom mentions
AtomVars(atom) ==
    CASE atom.type = "AttrTriple" -> TermVars(atom.entity) \cup TermVars(atom.value)
      [] atom.type = "Rule" -> UNION {TermVars(atom.args[i]) : i \in 1..Len(atom.args)}
      [] OTHER -> {}

ClauseVars == UNION {AtomVars(clauses[i]) : i \in 1..Len(clauses)}

IsTempKw(k) == Head(k) = "*"

Returned == c_pc = "done" /\ c_result \in {"Ok", "UnsafeUnboundVars"}

\* C2: a return variable that no atom of the body binds makes compile_rule_body
\* return UnsafeUnboundVars and never a relation; when every return variable is
\* bound by the body, the body variables outside ret_vars are eliminated and
\* the call returns a relation.
C2_UnboundRetVar ==
    /\ (c_pc = "done" /\ ~(Range(ret_vars) \subseteq ClauseVars)) => c_result # "Ok"
    /\ (Returned /\ ~(Range(ret_vars) \subseteq ClauseVars))
          => c_result = "UnsafeUnboundVars"
    /\ (Returned /\ Range(ret_vars) \subseteq ClauseVars)
          => (c_result = "Ok" /\ Range(Bindings(ret)) = Range(ret_vars))

\* ?(x, y) :- parent(x, z)
C2_Witness ==
    /\ c_pc = "done"
    /\ clauses = <<AttrTripleAtom(TermVar(VarX), TermVar(VarZ))>>
    /\ ret_vars = <<VarX, VarY>>
    /\ c_result = "UnsafeUnboundVars"

SymDiff(a, b) == (a \ b) \cup (b \ a)

\* C3: the keyword set carried by UnsafeUnboundVars contains every variable on
\* which ret_vars and the bindings of the compiled relation disagree, and is
\* not empty.
C3_ErrorNamesUnbound ==
    c_result = "UnsafeUnboundVars"
        => /\ SymDiff(Range(ret_vars), Range(Bindings(ret))) \subseteq c_unbound
           /\ c_unbound # {}

\* C4: an Ok result has exactly ret_vars as its bindings, in order, without a
\* temp keyword; a Reorder is on top exactly when the bindings after
\* elimination agree with ret_vars as a set but not as a sequence.
C4_OkBindingsAreRetVars ==
    c_result = "Ok"
        => LET inner == IF ret.kind = "Reorder" THEN ret.left ELSE ret
           IN /\ Bindings(ret) = ret_vars
              /\ \A i \in 1..Len(Bindings(ret)) : ~IsTempKw(Bindings(ret)[i])
              /\ (ret.kind = "Reorder")
                    <=> (/\ Range(Bindings(inner)) = Range(ret_vars)
                         /\ Bindings(inner) # ret_vars)

\* ?(z, x) :- parent(x, z): bound in the other order, so reordered
C4_Witness ==
    /\ c_result = "Ok"
    /\ ret.kind = "Reorder"
    /\ ret_vars = <<VarZ, VarX>>
    /\ Bindings(ret.left) = <<VarX, VarZ>>

\* every Join node of a relation
RECURSIVE Joins(_)
Joins(r) ==
    IF r.kind = "Join" THEN {r} \cup Joins(r.left) \cup Joins(r.right)
    ELSE IF r.kind = "Reorder" THEN Joins(r.left)
    ELSE {}

JoinKeysOk(j) ==
    /\ Len(j.left_keys) = Len(j.right_keys)
    /\ Range(j.left_keys) \subseteq Range(Bindings(j.left))
    /\ Range(j.right_keys) \subseteq Range(j.right.bindings)

\* C5: in every Join built, the key lists have the same length, the left keys
\* are bindings of the left relation and the right keys are bindings of the
\* right relation.
C5_JoinKeysAreBindings ==
    c_pc = "loop" => \A j \in Joins(ret) : JoinKeysOk(j)

IsDistinct(s) == \A i, j \in 1..Len(s) : i # j => s[i] # s[j]

\* C6: after each atom the binding names of the relation built so far are
\* pairwise distinct.
C6_BindingsDistinct ==
    c_pc = "loop" => IsDistinct(Bindings(ret))

\* two atoms, the second mentioning only variables seen before
C6_Witness ==
    /\ c_pc = "loop"
    /\ Len(clauses) = 2
    /\ clauses[1] = AttrTripleAtom(TermVar(VarX), TermVar(VarZ))
    /\ clauses[2] = RuleApplyAtom("r", <<TermVar(VarZ), TermVar(VarX)>>)
    /\ Len(Bindings(ret)) = 2

IsArityMismatch(atom) ==
    /\ atom.type = "Rule"
    /\ atom.name \in DOMAIN stores
    /\ stores[atom.name] # Len(atom.args)

IsUndefined(atom) == atom.type = "Rule" /\ atom.name \notin DOMAIN stores

\* C7: a RuleApply atom whose argument count differs from the arity in stores
\* ends the compilation with ArityMismatch for its name, whatever precedes it.
C7_ArityMismatch ==
    \A i \in 1..Len(clauses) :
        IsArityMismatch(clauses[i])
            => /\ i = Len(clauses)
               /\ c_pc = "done"
               /\ c_result = "ArityMismatch"
               /\ c_err = clauses[i].name

C7_Witness ==
    /\ Len(clauses) = 2
    /\ clauses[1].type = "AttrTriple"
    /\ IsArityMismatch(clauses[2])
    /\ c_result = "ArityMismatch"

\* C8: a RuleApply atom whose name is not in stores ends the compilation with
\* UndefinedRule for that name, and ArityMismatch is only reported for a name
\* that stores holds.
C8_UndefinedRule ==
    /\ \A i \in 1..Len(clauses) :
          IsUndefined(clauses[i])
              => /\ i = Len(clauses)
                 /\ c_pc = "done"
                 /\ c_result = "UndefinedRule"
                 /\ c_err = clauses[i].name
    /\ c_result = "ArityMismatch" => c_err \in DOMAIN stores

C8_Witness ==
    /\ Len(clauses) = 2
    /\ clauses[2] = RuleApplyAtom("q", <<TermVar(VarX)>>)
    /\ c_result = "UndefinedRule"
    /\ c_err = "q"

\* C13: a Predicate atom wraps the relation built so far in a Filter and the
\* compilation goes on with the next atom; a body with a Predicate atom ends in
\* a relation or a compilation error, never in an abort.
C13_PredicateWrapsFilter ==
    \A i \in 1..Len(clauses) :
        clauses[i].type = "Predicate"
            => /\ c_result # "panic"
               /\ (i = Len(clauses) /\ c_pc = "loop") => ret.kind = "Filter"

\* the variable positions of an atom, in the order the code visits them, and
\* the term at each
AtomTerms(atom) ==
    IF atom.type = "AttrTriple" THEN <<atom.entity, atom.value>> ELSE atom.args

\* the variables seen when position p of the atom is visited
SeenAt(seen, atom, p) ==
    seen \cup UNION {TermVars(AtomTerms(atom)[q]) : q \in 1..(p - 1)}

\* the right-hand relation of the atom compiled last
RightOf(r) == IF r.kind = "Join" THEN r.right ELSE r

KeyPairs(r) ==
    IF r.kind = "Join"
    THEN {<<r.left_keys[k], r.right_keys[k]>> : k \in 1..Len(r.left_keys)}
    ELSE {}

\* what the re-seen variable rule asks of position p of the atom: `seen` and
\* `serial` are the values before the atom, r the relation after it
ReSeenRule(seen, serial, serial_after, atom, p, r) ==
    LET term == AtomTerms(atom)[p]
        b == RightOf(r).bindings[p]
    IN term.kind = "Var"
          => IF term.kw \in SeenAt(seen, atom, p)
             THEN /\ b \in {gen_temp_kw(n) : n \in serial..(serial_after - 1)}
                  /\ <<term.kw, b>> \in KeyPairs(r)
                  /\ r.kind = "Join" /\ Len(r.left_keys) = Len(r.right_keys)
             ELSE /\ b = term.kw
                  /\ \A pair \in KeyPairs(r) : pair[2] # b

\* C15: when an AttrTriple or RuleApply atom mentions a variable that is in
\* seen_variables, the right-hand relation gets a fresh temp keyword in that
\* position and the pair (seen variable, temp keyword) is in the left and
\* right join keys at the same index; a variable not seen before is the
\* right-hand binding itself, joins seen_variables and adds no join key.
C15_ReSeenVariableRule ==
    [][(CompileNextClause /\ c_result' = "none")
          => LET atom == clauses'[Len(clauses')]
             IN /\ Len(RightOf(ret').bindings) = Len(AtomTerms(atom))
                /\ \A p \in 1..Len(AtomTerms(atom)) :
                      ReSeenRule(seen_variables, id_serial, id_serial', atom, p, ret')
                /\ AtomVars(atom) \subseteq seen_variables'
                /\ seen_variables' = seen_variables \cup AtomVars(atom)]_vars

\* ?x is bound by a triple and mentioned again by r(?x, ?z)
C15_Witness ==
    /\ c_pc = "loop"
    /\ clauses = <<AttrTripleAtom(TermVar(VarX), TermConst),
                   RuleApplyAtom("r", <<TermVar(VarX), TermVar(VarZ)>>)>>
    /\ ret.left_keys = <<VarX>>
    /\ ret.right_keys = <<gen_temp_kw(2)>>
    /\ ret.right.bindings = <<gen_temp_kw(2), VarZ>>

\* the bindings of the leaves of a relation, left to right
RECURSIVE LeafBindings(_)
LeafBindings(r) ==
    IF r.kind = "Join" THEN LeafBindings(r.left) \o LeafBindings(r.right)
    ELSE IF r.kind = "Reorder" THEN LeafBindings(r.left)
    ELSE r.bindings

\* the temp keywords generated so far
Generated == {gen_temp_kw(n) : n \in 0..(id_serial - 1)}

\* C16: within one compile_rule_body call the temp keywords generated are
\* pairwise distinct (the serial starts at 0 and grows by one per keyword),
\* each begins with `*`, and none is a variable of the body or of ret_vars.
C16_TempKeywordsFresh ==
    /\ \A n, m \in 0..(id_serial - 1) : n # m => gen_temp_kw(n) # gen_temp_kw(m)
    /\ \A k \in Generated : Head(k) = "*"
    /\ Generated \cap (ClauseVars \cup Range(ret_vars)) = {}
    /\ c_pc = "loop"
          => LET temps == SelectSeq(LeafBindings(ret), IsTempKw)
             IN /\ IsDistinct(temps)
                /\ Range(temps) = Generated
                /\ Len(temps) = id_serial

\* [c, attr, ?x] and then [?x, attr, c]: five temp keywords
C16_Witness ==
    /\ c_pc = "loop"
    /\ clauses = <<AttrTripleAtom(TermConst, TermVar(VarX)),
                   AttrTripleAtom(TermVar(VarX), TermConst)>>
    /\ id_serial = 5

\* C17: a body of AttrTriple and RuleApply atoms only ends in a relation or in
\* a QueryCompilationError and never aborts, also when an AttrTriple atom has
\* the same variable as entity and as value.
C17_NoAbort ==
    (\A i \in 1..Len(clauses) : clauses[i].type \in {"AttrTriple", "Rule"})
        => /\ c_result # "panic"
           /\ c_pc = "done"
                 => c_result \in {"Ok", "UnsafeUnboundVars", "UndefinedRule", "ArityMismatch"}

\* ========================================================================
\* Db (runtime/db.rs): handles, write transactions, the primary store
\* ========================================================================
Threads == {"t1", "t2"}

WriteOps == {"transact_write", "transact_triples", "transact_attributes"}

\* the operations that begin with `let mut tx = self.transact()?`, and
\* transact itself
ReadOps == {"transact", "run_query", "entities_at", "pull", "current_schema"}

\* the items of a transaction request (triples or attributes)
Payload == <<"item1", "item2">>

\* w_tx_id: None
NoTxId == -1

\* a thread that runs no operation; it holds no SessionTx
Idle ==
    [pc |-> "idle", op |-> "none", h |-> 1, last_tx_id |-> 0,
     w_tx_id |-> NoTxId, buffer |-> 0, after |-> 0]

\* Db::build on a fresh store, and no call in progress
InitDbVars ==
    /\ atomics = <<0>>
    /\ n_sessions = 0
    /\ handles = <<[session_id |-> 0, last_tx_id |-> 1]>>
    /\ th = [t \in Threads |-> Idle]
    /\ committed = {}
    /\ issued = {}
    /\ n_issued = 0
    /\ failed = {}
    /\ commit_ran = {}

NewSessionAtomicsCopied(cells, h) ==
    [cells |-> Append(cells, cells[h.last_tx_id]), last_tx_id |-> Len(cells) + 1]

\* last_tx_id: self.last_tx_id.clone() -- the clone of an Arc is the same cell
NewSessionAtomics(cells, h) == [cells |-> cells, last_tx_id |-> h.last_tx_id]

\* Db::new_session
NewSession(t, i) ==
    /\ th[t].pc = "idle"
    /\ Len(handles) <= MaxSessions
    /\ LET old_count == n_sessions
           a == NewSessionAtomics(atomics, handles[i])
       IN /\ n_sessions' = old_count + 1
          /\ atomics' = a.cells
          /\ handles' = Append(handles,
                               [session_id |-> old_count + 1, last_tx_id |-> a.last_tx_id])
    /\ UNCHANGED <<th, committed, issued, n_issued, failed, commit_ran>>
    /\ UNCHANGED <<cvars, svars, qvars, pvars>>

\* calls of the write operations begun so far
Begun ==
    n_issued
    + Cardinality({t \in Threads : th[t].pc \in {"ta_parse", "fetch_add", "tw_return"}})

Max(S) == CHOOSE m \in S : \A x \in S : x <= m

\* a thread calls transact_write, transact_triples or transact_attributes on
\* handle i; `after` remembers the greatest TxId among the transact_write
\* calls that have returned before this call begins (0: none has)
BeginWriteOp(t, i, o) ==
    /\ th[t].pc = "idle"
    /\ Begun < MaxWriteTx
    /\ th' = [th EXCEPT ![t] =
                 [Idle EXCEPT !.op = o, !.h = i, !.after = Max(issued \cup {0}),
                              !.pc = IF o = "transact_attributes"
                                     THEN "ta_parse" ELSE "fetch_add"]]
    /\ UNCHANGED <<atomics, n_sessions, handles, committed, issued, n_issued, failed, commit_ran>>
    /\ UNCHANGED <<cvars, svars, qvars, pvars>>

TransactFetchAdd(v) == v + 1

\* Db::transact: last_tx_id: self.last_tx_id.clone() and no fetch_add -- the
\* cell keeps its value
TransactCell(v) == v

\* Db::transact, called directly or as the first step of a read operation:
\* Ok(SessionTx { w_tx_id: None, .. })
Transact(t, i, o) ==
    /\ th[t].pc = "idle"
    /\ atomics' = [atomics EXCEPT ![handles[i].last_tx_id] = TransactCell(@)]
    /\ th' = [th EXCEPT ![t] = [Idle EXCEPT !.op = o, !.w_tx_id = NoTxId,
                                            !.pc = "read_tx"]]
    /\ UNCHANGED <<n_sessions, handles, committed, issued, n_issued, failed, commit_ran>>
    /\ UNCHANGED <<cvars, svars, qvars, pvars>>

\* the read operation returns; its SessionTx goes out of scope
EndReadOp(t) ==
    /\ th[t].pc = "read_tx"
    /\ th' = [th EXCEPT ![t] = Idle]
    /\ UNCHANGED <<atomics, n_sessions, handles, committed, issued, n_issued, failed, commit_ran>>
    /\ UNCHANGED <<cvars, svars, qvars, pvars>>

ErrorIgnored(rec) == [rec EXCEPT !.pc = "get_write_tx_id"]

\* the `?` of a failed step: the function returns the error, so the SessionTx
\* goes out of scope
ErrorReturn(rec) == [rec EXCEPT !.pc = "dropping"]

\* the SessionTx of a failed call is dropped without commit: its write buffer
\* is discarded
DropSessionTx(t) ==
    /\ th[t].pc = "dropping"
    /\ th' = [th EXCEPT ![t] = Idle]
    /\ UNCHANGED <<atomics, n_sessions, handles, committed, issued, n_issued, failed, commit_ran>>
    /\ UNCHANGED <<cvars, svars, qvars, pvars>>

\* AttrTxItem::parse_request(payload)? -- before transact_write
ParseAttrRequest(t) ==
    /\ th[t].pc = "ta_parse"
    /\ \E ok \in BOOLEAN :
         th' = [th EXCEPT ![t] = IF ok THEN [@ EXCEPT !.pc = "fetch_add"] ELSE Idle]
    /\ UNCHANGED <<atomics, n_sessions, handles, committed, issued, n_issued, failed, commit_ran>>
    /\ UNCHANGED <<cvars, svars, qvars, pvars>>

AtomicFetchAddZero(v) == v

\* the value fetch_add(1) leaves in the cell
AtomicFetchAdd(v) == v + 1

\* transact_write: let last_tx_id = self.last_tx_id.fetch_add(1, AcqRel)
TransactWriteFetchAdd(t) ==
    /\ th[t].pc = "fetch_add"
    /\ LET cell == handles[th[t].h].last_tx_id
       IN /\ th' = [th EXCEPT ![t].last_tx_id = atomics[cell], ![t].pc = "tw_return"]
          /\ atomics' = [atomics EXCEPT ![cell] = AtomicFetchAdd(@)]
    /\ UNCHANGED <<n_sessions, handles, committed, issued, n_issued, failed, commit_ran>>
    /\ UNCHANGED <<cvars, svars, qvars, pvars>>

\* where the caller of transact_write goes on
AfterTransactWrite(o) ==
    CASE o = "transact_triples" -> "tt_parse"
      [] o = "transact_attributes" -> "tx_items"
      [] OTHER -> "idle"

\* transact_write: cur_tx_id = TxId(last_tx_id + 1); Ok(SessionTx { w_tx_id: Some(..) });
\* the caller works on the SessionTx and no longer on the handle
TransactWriteReturn(t) ==
    /\ th[t].pc = "tw_return"
    /\ LET cur_tx_id == th[t].last_tx_id + 1
       IN /\ issued' = issued \cup {cur_tx_id}
          /\ n_issued' = n_issued + 1
          /\ th' = [th EXCEPT ![t] =
                       IF th[t].op = "transact_write"
                       THEN Idle
                       ELSE [@ EXCEPT !.w_tx_id = cur_tx_id, !.h = 1,
                                      !.pc = AfterTransactWrite(th[t].op)]]
    /\ UNCHANGED <<atomics, n_sessions, handles, committed, failed, commit_ran>>
    /\ UNCHANGED <<cvars, svars, qvars, pvars>>

\* transact_triples: tx.parse_tx_requests(payload)?
ParseTxRequests(t) ==
    /\ th[t].pc = "tt_parse"
    /\ \E ok \in BOOLEAN :
         IF ok
         THEN /\ th' = [th EXCEPT ![t].pc = "tx_items"]
              /\ UNCHANGED failed
         ELSE /\ th' = [th EXCEPT ![t] = ErrorReturn(@)]
              /\ failed' = failed \cup {th[t].w_tx_id}
    /\ UNCHANGED <<atomics, n_sessions, handles, committed, issued, n_issued, commit_ran>>
    /\ UNCHANGED <<cvars, svars, qvars, pvars>>

\* tx_triples / tx_attrs: one more item of the request is written into the
\* write buffer of the transaction
TxWriteItem(t) ==
    /\ th[t].pc = "tx_items"
    /\ th[t].buffer < Len(Payload)
    /\ th' = [th EXCEPT ![t].buffer = @ + 1]
    /\ UNCHANGED <<atomics, n_sessions, handles, committed, issued, n_issued, failed, commit_ran>>
    /\ UNCHANGED <<cvars, svars, qvars, pvars>>

\* tx_triples(..)? / tx_attrs(..)?: an item is rejected
TxItemFails(t) ==
    /\ th[t].pc = "tx_items"
    /\ th[t].buffer < Len(Payload)
    /\ th' = [th EXCEPT ![t] = ErrorReturn(@)]
    /\ failed' = failed \cup {th[t].w_tx_id}
    /\ UNCHANGED <<atomics, n_sessions, handles, committed, issued, n_issued, commit_ran>>
    /\ UNCHANGED <<cvars, svars, qvars, pvars>>

\* tx_triples / tx_attrs returns Ok
TxItemsDone(t) ==
    /\ th[t].pc = "tx_items"
    /\ th[t].buffer = Len(Payload)
    /\ th' = [th EXCEPT ![t].pc = "get_write_tx_id"]
    /\ UNCHANGED <<atomics, n_sessions, handles, committed, issued, n_issued, failed, commit_ran>>
    /\ UNCHANGED <<cvars, svars, qvars, pvars>>

\* let tx_id = tx.get_write_tx_id()?  -- an error for a transaction without
\* w_tx_id; any other failure of the call takes the same path
GetWriteTxId(t) ==
    /\ th[t].pc = "get_write_tx_id"
    /\ \E ok \in BOOLEAN :
         IF ok /\ th[t].w_tx_id # NoTxId
         THEN /\ th' = [th EXCEPT ![t].pc = "commit_tx"]
              /\ UNCHANGED failed
         ELSE /\ th' = [th EXCEPT ![t] = ErrorReturn(@)]
              /\ failed' = failed \cup {th[t].w_tx_id}
    /\ UNCHANGED <<atomics, n_sessions, handles, committed, issued, n_issued, commit_ran>>
    /\ UNCHANGED <<cvars, svars, qvars, pvars>>

\* tx.commit_tx(&comment, false)?: the write buffer becomes visible as a whole,
\* or the store rejects the commit and nothing does
CommitTx(t) ==
    /\ th[t].pc = "commit_tx"
    /\ commit_ran' = commit_ran \cup {th[t].w_tx_id}
    /\ \E ok \in BOOLEAN :
         committed' = IF ok
                      THEN committed \cup {<<th[t].w_tx_id, k>> : k \in 1..th[t].buffer}
                      ELSE committed
    /\ th' = [th EXCEPT ![t] = Idle]
    /\ UNCHANGED <<atomics, n_sessions, handles, issued, n_issued, failed>>
    /\ UNCHANGED <<cvars, svars, qvars, pvars>>

NextDb ==
    \E t \in Threads :
        \/ \E i \in 1..Len(handles) : NewSession(t, i)
        \/ \E i \in 1..Len(handles), o \in WriteOps : BeginWriteOp(t, i, o)
        \/ ParseAttrRequest(t)
        \/ TransactWriteFetchAdd(t)
        \/ TransactWriteReturn(t)
        \/ ParseTxRequests(t)
        \/ TxWriteItem(t)
        \/ TxItemFails(t)
        \/ TxItemsDone(t)
        \/ GetWriteTxId(t)
        \/ CommitTx(t)
        \/ DropSessionTx(t)
        \/ \E i \in 1..Len(handles), o \in ReadOps : Transact(t, i, o)
        \/ EndReadOp(t)

\* ========================================================================
\* Db::entities_at (runtime/db.rs) over the EAVT index
\* ========================================================================
Entities == {1}

\* the attribute catalog: attr id -> cardinality
attr_by_id == [a \in {"age", "tag"} |-> IF a = "age" THEN "one" ELSE "many"]

AttrIds == DOMAIN attr_by_id

\* the total order of DataValue, Null lowest and Bottom highest
ValueOrder == <<"Null", "a", "b", "Bottom">>
AttrOrder == <<"age", "tag", "gone">>

\* an attribute retracted after triples of it were written: attr_by_id no
\* longer returns it, its entries are still stored
RetractedAttrs == {"gone"}

\* the cardinality an attribute had when its triples were written
CardinalityWhenWritten(a) == IF a \in DOMAIN attr_by_id THEN attr_by_id[a] ELSE "many"

Rank(order, x) == CHOOSE i \in 1..Len(order) : order[i] = x

UserValues == {"a", "b"}

Validities == 1..MaxVld
ValidityMIN == 0
ValidityMAX == MaxVld + 1

\* encode_eav_key(e, a, v, vld)
encode_eav_key(e, a, v, vld) == [e |-> e, a |-> a, vld |-> vld, v |-> v]

\* the comparator of the store on EAVT keys: entity, attribute, validity
\* (greater first), value
KeyLess(k1, k2) ==
    \/ k1.e < k2.e
    \/ k1.e = k2.e /\ Rank(AttrOrder, k1.a) < Rank(AttrOrder, k2.a)
    \/ k1.e = k2.e /\ k1.a = k2.a /\ k1.vld > k2.vld
    \/ k1.e = k2.e /\ k1.a = k2.a /\ k1.vld = k2.vld
         /\ Rank(ValueOrder, k1.v) < Rank(ValueOrder, k2.v)

KeyOf(x) == encode_eav_key(x.e, x.a, x.v, x.vld)

\* write_triple: a cardinality-one attribute keeps its value in the value
\* slot and Bottom in the key; a cardinality-many attribute keeps it in the key
NewEntry(e, a, v, vld, op) ==
    IF CardinalityWhenWritten(a) = "one"
    THEN [e |-> e, a |-> a, vld |-> vld, v |-> "Bottom", op |-> op, val |-> v]
    ELSE [e |-> e, a |-> a, vld |-> vld, v |-> v, op |-> op, val |-> "Bottom"]

\* put under a key replaces what the key held
Upsert(entries, x) == {y \in entries : KeyOf(y) # KeyOf(x)} \cup {x}

\* it.seek(key): the first stored key >= key, <<>> when there is none
Seek(entries, key) ==
    LET ge == {KeyOf(y) : y \in {z \in entries : ~KeyLess(KeyOf(z), key)}}
    IN IF ge = {} THEN <<>>
       ELSE CHOOSE k \in ge : \A k2 \in ge : k2 = k \/ KeyLess(k, k2)

EntryAt(entries, key) == CHOOSE y \in entries : KeyOf(y) = key

\* EncodedVec::encoded_entity_amend_validity: only the validity changes
encoded_entity_amend_validity(key, vld) == [key EXCEPT !.vld = vld]

encoded_entity_amend_validity_to_inf_past(key) ==
    encoded_entity_amend_validity(key, ValidityMIN)

InitScanVars ==
    /\ eavt = {}
    /\ s_pc = "write"
    /\ s_vld = ValidityMAX
    /\ current = <<>>
    /\ it = <<>>
    /\ collected = [g \in Entities \X AttrIds |-> <<>>]

\* a committed put / retract of one triple at validity vld
WriteTriple(e, a, v, vld, op) ==
    /\ s_pc = "write"
    /\ Cardinality(eavt) < MaxWrites
    /\ eavt' = Upsert(eavt, NewEntry(e, a, v, vld, op))
    /\ UNCHANGED <<s_pc, s_vld, current, it, collected>>
    /\ UNCHANGED <<cvars, dvars, qvars, pvars>>

\* entities_at(vld) up to the first it.seek(&current)
ScanBegin(vld) ==
    /\ s_pc = "write"
    /\ eavt # {}
    /\ s_vld' = vld
    /\ LET start == encode_eav_key(1, AttrOrder[1], "Null", ValidityMAX)
       IN /\ current' = start
          /\ it' = Seek(eavt, start)
    /\ s_pc' = "scan"
    /\ UNCHANGED <<eavt, collected>>
    /\ UNCHANGED <<cvars, dvars, qvars, pvars>>

\* the value of an entry: from the value slot or from the key
DecodeValue(x) == IF attr_by_id[x.a] = "one" THEN x.val ELSE x.v

\* collected after pushing / inserting the value of entry x
Collect(coll, x) ==
    IF attr_by_id[x.a] = "many"
    THEN [coll EXCEPT ![<<x.e, x.a>>] = Append(@, DecodeValue(x))]
    ELSE [coll EXCEPT ![<<x.e, x.a>>] = <<DecodeValue(x)>>]

\* one iteration of `while let Some((k_slice, v_slice)) = it.pair()?`
ScanStep ==
    /\ s_pc = "scan"
    /\ it # <<>>
    /\ LET x == EntryAt(eavt, it)
           cur ==
             IF x.vld > s_vld
             THEN encoded_entity_amend_validity(it, s_vld)
             ELSE encoded_entity_amend_validity_to_inf_past(it)
       IN /\ current' = cur
          /\ it' = Seek(eavt, cur)
          /\ collected' =
               IF x.vld > s_vld \/ x.op = "retract" \/ x.a \notin DOMAIN attr_by_id
               THEN collected
               ELSE Collect(collected, x)
    /\ UNCHANGED <<eavt, s_pc, s_vld>>
    /\ UNCHANGED <<cvars, dvars, qvars, pvars>>

\* it.pair() is None: the loop ends and the collected map is returned
ScanEnd ==
    /\ s_pc = "scan"
    /\ it = <<>>
    /\ s_pc' = "done"
    /\ UNCHANGED <<eavt, s_vld, current, it, collected>>
    /\ UNCHANGED <<cvars, dvars, qvars, pvars>>

\* a triple of a retracted attribute, or a triple with the validity
\* Validity::MIN, is in the store
WriteTripleAny ==
    \E e \in Entities, a \in AttrIds \cup RetractedAttrs, v \in UserValues,
       vld \in Validities \cup {ValidityMIN}, op \in {"assert", "retract"} :
        WriteTriple(e, a, v, vld, op)

\* the loop body while the output holds no more values than the store has
\* entries: a scan that examines every entry once never has more
ScanStepCapped ==
    /\ \A g \in DOMAIN collected : Len(collected[g]) <= Cardinality(eavt)
    /\ ScanStep

NextScanAny ==
    \/ WriteTripleAny
    \/ \E vld \in Validities \cup {ValidityMIN, ValidityMAX} : ScanBegin(vld)
    \/ ScanStepCapped
    \/ ScanEnd

NextScan ==
    \/ \E e \in Entities, a \in AttrIds, v \in UserValues, vld \in Validities,
          op \in {"assert", "retract"} : WriteTriple(e, a, v, vld, op)
    \/ \E vld \in Validities \cup {ValidityMAX} : ScanBegin(vld)
    \/ ScanStep
    \/ ScanEnd

\* ------------------------------------------------------------------------
\* Properties of entities_at
\* ------------------------------------------------------------------------
Group(e, a) == {x \in eavt : x.e = e /\ x.a = a}

\* the entries of a group that a read as of vld may see
Visible(e, a, vld) == {x \in Group(e, a) : x.vld <= vld}

\* the entries of a group with the greatest stored validity <= vld
Newest(e, a, vld) ==
    {x \in Visible(e, a, vld) : \A y \in Visible(e, a, vld) : y.vld <= x.vld}

Reported(e, a) == Range(collected[<<e, a>>])

\* what the claim of C10 asks of one version group
NewestIsReported(e, a) ==
    /\ \A x \in Newest(e, a, s_vld) :
          (Cardinality(Newest(e, a, s_vld)) = 1 /\ x.op = "assert")
              => DecodeValue(x) \in Reported(e, a)
    /\ \A v \in Reported(e, a) :
          \E x \in Visible(e, a, s_vld) : x.op = "assert" /\ DecodeValue(x) = v

\* C10: for every (entity, attribute) version group and every as-of validity,
\* the finished scan reports the value of the group's entry with the greatest
\* stored validity <= vld when that entry is an assertion, and no entry with a
\* validity > vld contributes a value.
C10_NewestVisibleReported ==
    s_pc = "done" => \A e \in Entities, a \in AttrIds : NewestIsReported(e, a)

\* the same, for the groups of cardinality-one attributes only
EntitiesAtCardinalityOne ==
    s_pc = "done"
        => \A e \in Entities, a \in AttrIds :
              attr_by_id[a] = "one" => NewestIsReported(e, a)

\* the version group of a value: (e, a) for a cardinality-one attribute,
\* (e, a, v) for a cardinality-many attribute
VersionGroup(e, a, v) ==
    IF attr_by_id[a] = "one" THEN Group(e, a) ELSE {x \in Group(e, a) : x.v = v}

\* the entry of the version group with the greatest stored validity <= vld
NewestOfVersion(e, a, v, vld) ==
    {x \in VersionGroup(e, a, v) :
        /\ x.vld <= vld
        /\ \A y \in VersionGroup(e, a, v) : y.vld <= vld => y.vld <= x.vld}

\* the values of a version group that the output holds
ReportedOfVersion(e, a, v) ==
    IF attr_by_id[a] = "one" THEN Reported(e, a) ELSE Reported(e, a) \cap {v}

\* a scan as of the tombstone's validity or later reports nothing of the group
TombstoneHides(e, a, v) ==
    (\E x \in NewestOfVersion(e, a, v, s_vld) : x.op = "retract")
        => ReportedOfVersion(e, a, v) = {}

\* a scan as of a validity before the tombstone's reports the assertion that
\* was the newest then
BeforeTombstoneShown(e, a, v) ==
    \A x \in VersionGroup(e, a, v), y \in NewestOfVersion(e, a, v, s_vld) :
        (x.op = "retract" /\ x.vld > s_vld /\ y.op = "assert")
            => DecodeValue(y) \in ReportedOfVersion(e, a, v)

\* C11: when the newest entry with validity <= vld of a version group is a
\* retract tombstone, the finished scan holds no value of that group, however
\* many older assertions the group has; a scan taken as of a validity before
\* the tombstone's does hold the assertion.
C11_TombstoneHidesGroup ==
    s_pc = "done"
        => \A e \in Entities, a \in AttrIds, v \in UserValues :
              TombstoneHides(e, a, v) /\ BeforeTombstoneShown(e, a, v)

\* the same, for the groups of cardinality-one attributes only
TombstoneCardinalityOne ==
    s_pc = "done"
        => \A e \in Entities, a \in AttrIds, v \in UserValues :
              attr_by_id[a] = "one"
                  => TombstoneHides(e, a, v) /\ BeforeTombstoneShown(e, a, v)

\* the first half alone
TombstoneHidesAll ==
    s_pc = "done"
        => \A e \in Entities, a \in AttrIds, v \in UserValues : TombstoneHides(e, a, v)

\* C18: every iteration of the scan loop re-seeks to a key strictly after the
\* entry it examined, whatever the store holds (entries with the minimum
\* validity, tombstones, triples of unknown attributes), so no entry is
\* examined twice and the loop ends.
C18_ScanAdvances ==
    [][ScanStep => (it' = <<>> \/ KeyLess(it, it'))]_vars

\* ------------------------------------------------------------------------
\* Properties of the Db handle
\* ------------------------------------------------------------------------
\* C1: the TxIds handed out by transact_write, on whatever handles and in
\* whatever interleaving, are pairwise distinct, and a call that begins after
\* another call has returned gets a strictly greater TxId.
C1_TxIdsDistinctIncreasing ==
    /\ Cardinality(issued) = n_issued
    /\ \A id \in issued : 1 <= id /\ id <= atomics[handles[1].last_tx_id]
    /\ \A t \in Threads :
          th[t].pc = "tw_return" => th[t].last_tx_id + 1 \notin issued
    /\ \A t \in Threads :
          th[t].pc = "tw_return" => th[t].last_tx_id + 1 > th[t].after
    /\ \A t \in Threads :
          th[t].w_tx_id # NoTxId => th[t].w_tx_id > th[t].after

\* a call on the second handle is about to return after two other calls
\* have returned, one of them before it began
C1_Witness ==
    \E t \in Threads :
        /\ th[t].pc = "tw_return"
        /\ th[t].h = 2
        /\ n_issued = 2
        /\ th[t].after = 1
        /\ th[t].last_tx_id + 1 = 3

\* C9: a transact_triples / transact_attributes call that fails before
\* commit_tx never runs commit_tx, and nothing it wrote is in the committed
\* content of the primary store.
C9_FailedTxLeavesNoWrites ==
    /\ failed \cap commit_ran = {}
    /\ \A w \in committed : w[1] \in commit_ran /\ w[1] \notin failed
    /\ \A t \in Threads :
          th[t].pc = "dropping"
              => /\ th[t].w_tx_id \in failed
                 /\ th[t].w_tx_id \notin commit_ran

\* a call fails in tx_triples / tx_attrs with one item already written, while
\* the store holds the writes of a committed transaction
C9_Witness ==
    \E t \in Threads :
        /\ th[t].pc = "dropping"
        /\ th[t].buffer = 1
        /\ committed # {}

\* the calls of transact_write that have done their fetch_add
FetchAddsDone == n_issued + Cardinality({t \in Threads : th[t].pc = "tw_return"})

\* C19: Db::transact and the read operations built on it leave the shared
\* last_tx_id counter as it is and hold a transaction without a write TxId;
\* the counter is advanced by transact_write only, by one per call.
C19_ReadOnlyKeepsCounter ==
    /\ atomics[handles[1].last_tx_id] = FetchAddsDone
    /\ \A t \in Threads :
          th[t].op \in ReadOps => (th[t].pc = "read_tx" /\ th[t].w_tx_id = NoTxId)
    /\ \A t \in Threads :
          th[t].w_tx_id # NoTxId => th[t].op \in WriteOps

\* run_query holds its read transaction after one write call has returned and
\* while another has done its fetch_add
C19_Witness ==
    \E t \in Threads, u \in Threads :
        /\ th[t].pc = "read_tx"
        /\ th[t].op = "run_query"
        /\ th[u].pc = "tw_return"
        /\ n_issued = 1
        /\ atomics[handles[1].last_tx_id] = 2

\* ========================================================================
\* Db::run_query (runtime/db.rs): entry extraction
\* ========================================================================
\* Option::None of limit, offset and of the row limit of the evaluation
NoneOpt == -1

\* the rows an entry rule may derive: <<first column, second column>>
AllRows == {<<i, i % 2>> : i \in 1..MaxRows}

\* the key order of the scratch store: rows compare column by column
RowKeyLess(r1, r2) == r1[1] < r2[1] \/ (r1[1] = r2[1] /\ r1[2] < r2[2])

\* result.scan_all(): the rows of a store in key order
RECURSIVE ScanAll(_)
ScanAll(rows) ==
    IF rows = {} THEN <<>>
    ELSE LET first == CHOOSE r \in rows : \A r2 \in rows : r2 = r \/ RowKeyLess(r, r2)
         IN <<first>> \o ScanAll(rows \ {first})

Directions == {"asc", "desc"}

\* out_opts.sorters: (column of the entry head, direction)
SorterChoices ==
    {<<>>}
    \cup {<<[col |-> c, dir |-> d]>> : c \in {1, 2}, d \in Directions}
    \cup {<<[col |-> 2, dir |-> d], [col |-> 1, dir |-> d2]>> : d \in Directions, d2 \in Directions}

OptChoices == {NoneOpt} \cup (0..MaxLimit)

\* r1 comes strictly before r2 under the sorters
RECURSIVE SortedBefore(_, _, _)
SortedBefore(r1, r2, sorters) ==
    IF sorters = <<>> THEN FALSE
    ELSE LET c == Head(sorters).col
             lt == IF Head(sorters).dir = "asc" THEN r1[c] < r2[c] ELSE r1[c] > r2[c]
         IN lt \/ (r1[c] = r2[c] /\ SortedBefore(r1, r2, Tail(sorters)))

\* one row put into an already sorted sequence, after the rows that do not
\* come after it
RECURSIVE InsertSorted(_, _, _)
InsertSorted(sorted, row, sorters) ==
    IF sorted = <<>> THEN <<row>>
    ELSE IF SortedBefore(row, Head(sorted), sorters)
         THEN <<row>> \o sorted
         ELSE <<Head(sorted)>> \o InsertSorted(Tail(sorted), row, sorters)

\* tx.sort_and_collect(result, &out_opts.sorters, entry_head), then scan_sorted()
RECURSIVE SortAndCollect(_, _)
SortAndCollect(rows, sorters) ==
    IF rows = <<>> THEN <<>>
    ELSE InsertSorted(SortAndCollect(SubSeq(rows, 1, Len(rows) - 1), sorters),
                      rows[Len(rows)], sorters)

\* Iterator::skip(n)
Skip(rows, n) == SubSeq(rows, n + 1, Len(rows))

\* Iterator::take(n)
Take(rows, n) == SubSeq(rows, 1, IF n < Len(rows) THEN n ELSE Len(rows))

\* out_opts.num_to_take(): limit plus offset when there is a limit
NumToTake(opts) ==
    IF opts.limit = NoneOpt THEN NoneOpt
    ELSE opts.limit + (IF opts.offset = NoneOpt THEN 0 ELSE opts.offset)

EvalLimitAlways(opts) == NumToTake(opts)

\* if out_opts.sorters.is_empty() { out_opts.num_to_take() } else { None }
EvalLimit(opts) == IF opts.sorters = <<>> THEN NumToTake(opts) ELSE NoneOpt

\* stratified_magic_evaluate(.., limit): the entry store, cut at the row limit
StratifiedMagicEvaluate(rows, limit) ==
    IF limit = NoneOpt THEN rows ELSE Take(rows, limit)

InitQueryVars ==
    /\ q_pc = "start"
    /\ entry_store = <<>>
    /\ out_opts = [sorters |-> <<>>, limit |-> NoneOpt, offset |-> NoneOpt]
    /\ eval_limit = NoneOpt
    /\ result = <<>>
    /\ q_out = <<>>

\* run_query up to the return of stratified_magic_evaluate
RunQueryEvaluate ==
    /\ q_pc = "start"
    /\ \E rows \in SUBSET AllRows, srt \in SorterChoices,
          lim \in OptChoices, off \in OptChoices :
         LET opts == [sorters |-> srt, limit |-> lim, offset |-> off]
         IN /\ entry_store' = ScanAll(rows)
            /\ out_opts' = opts
            /\ eval_limit' = EvalLimit(opts)
            /\ result' = StratifiedMagicEvaluate(ScanAll(rows), EvalLimit(opts))
    /\ q_pc' = "evaluated"
    /\ UNCHANGED q_out
    /\ UNCHANGED <<cvars, dvars, svars, pvars>>

\* if !out_opts.sorters.is_empty() { sort, skip(offset), take(limit) }
RunQuerySorted ==
    /\ q_pc = "evaluated"
    /\ out_opts.sorters # <<>>
    /\ LET sorted_result == SortAndCollect(result, out_opts.sorters)
           skipped == IF out_opts.offset # NoneOpt
                      THEN Skip(sorted_result, out_opts.offset)
                      ELSE sorted_result
           sorted_iter == IF out_opts.limit # NoneOpt
                          THEN Take(skipped, out_opts.limit)
                          ELSE skipped
       IN q_out' = sorted_iter
    /\ q_pc' = "done"
    /\ UNCHANGED <<entry_store, out_opts, eval_limit, result>>
    /\ UNCHANGED <<cvars, dvars, svars, pvars>>

\* else { run_pull_on_query_results(result.scan_all(), out_opts) }
RunQueryUnsorted ==
    /\ q_pc = "evaluated"
    /\ out_opts.sorters = <<>>
    /\ q_out' = result
    /\ q_pc' = "done"
    /\ UNCHANGED <<entry_store, out_opts, eval_limit, result>>
    /\ UNCHANGED <<cvars, dvars, svars, pvars>>

NextQuery == RunQueryEvaluate \/ RunQuerySorted \/ RunQueryUnsorted

\* ------------------------------------------------------------------------
\* Properties of run_query
\* ------------------------------------------------------------------------
\* the orders in which all rows of the entry store are sorted by the sorters
SortedOrders ==
    {p \in [1..Len(entry_store) -> Range(entry_store)] :
        /\ \A i, j \in 1..Len(entry_store) : i # j => p[i] # p[j]
        /\ \A i, j \in 1..Len(entry_store) :
              i < j => ~SortedBefore(p[j], p[i], out_opts.sorters)}

\* rows offset .. offset+limit of a sequence (1-based: offset+1 .. offset+limit)
Window(rows, offset, limit) ==
    LET from == IF offset = NoneOpt THEN 0 ELSE offset
        upto == IF limit = NoneOpt \/ from + limit > Len(rows)
                THEN Len(rows) ELSE from + limit
    IN [i \in 1..(IF upto > from THEN upto - from ELSE 0) |-> rows[from + i]]

\* C12: with at least one sorter the evaluation runs without a row limit, and
\* the rows returned are the rows offset .. offset+limit of the fully sorted
\* entry store: the offset is skipped and the limit taken after sorting.
C12_SortThenOffsetThenLimit ==
    (q_pc = "done" /\ out_opts.sorters # <<>>)
        => /\ eval_limit = NoneOpt
           /\ Range(result) = Range(entry_store)
           /\ \E p \in SortedOrders : q_out = Window(p, out_opts.offset, out_opts.limit)

\* three rows sorted on the second column, one skipped and one taken: the row
\* returned is the second of the sorted order and the first of the key order
C12_Witness ==
    /\ q_pc = "done"
    /\ Len(entry_store) = 3
    /\ out_opts = [sorters |-> <<[col |-> 2, dir |-> "asc"]>>, limit |-> 1, offset |-> 1]
    /\ q_out = <<entry_store[1]>>

\* ========================================================================
\* algebra::parser (algebra/parser.rs): build_ra_expr and RaFromValues::build
\* ========================================================================
\* Value: a scalar or a list of values
Scalar(n) == [list |-> FALSE, items |-> <<>>, n |-> n]
ListOf(items) == [list |-> TRUE, items |-> items, n |-> 0]

\* Value::into_vec: Ok(items) for a list, Err(self) otherwise
IntoVecOk(v) == v.list

SeqsUpTo(set, n) == UNION {[1..k -> set] : k \in 0..n}

FieldNames == {"id", "vals"}

\* the field lists of a schema `binding: [fields...]`
FieldLists == SeqsUpTo(FieldNames, MaxFields)

RowValues == {Scalar(1)} \cup {ListOf(r) : r \in SeqsUpTo({Scalar(1), Scalar(2)}, MaxFields)}

\* what the data expression evaluates to
DataValues == {Scalar(1)} \cup {ListOf(d) : d \in SeqsUpTo(RowValues, MaxDataRows)}

\* the arguments of one operator: `given` = 1 when only the schema is there,
\* `evals` = FALSE when the data expression does not evaluate
ArgChoices ==
    {[fields |-> f, given |-> 2, evals |-> TRUE, data |-> d] :
        f \in FieldLists, d \in DataValues}
    \cup {[fields |-> f, given |-> g, evals |-> e, data |-> Scalar(1)] :
            f \in FieldLists, g \in {1, 2}, e \in {FALSE}}

NoArgs == [fields |-> <<>>, given |-> 0, evals |-> FALSE, data |-> Scalar(0)]

NAME_RA_FROM_VALUES == "Values"
NAME_INSERT == "Insert"

OpNames == {NAME_RA_FROM_VALUES, NAME_INSERT, "From"}

\* Option<Arc<dyn RelationalAlgebra>>::None
NoneBuilt == [name |-> "", binding |-> <<>>, values |-> <<>>]

LastIndexOf(fields, name) ==
    CHOOSE i \in 1..Len(fields) :
        fields[i] = name /\ \A j \in 1..Len(fields) : fields[j] = name => j <= i

\* schema_pairs.enumerate().map(..).collect::<BTreeMap<_, _>>(): field name ->
\* col_idx; a name given twice keeps its last index
BindingMapOf(fields) == [name \in Range(fields) |-> LastIndexOf(fields, name) - 1]

\* let n_fields = binding_map.len()
NFields(binding_map, fields) == Cardinality(DOMAIN binding_map)

\* OwnTuple::with_data_prefix(DataKind::Data), extended by the row, pushed
\* into a fresh TupleSet
TupleSetOf(v) == [vals |-> <<[prefix |-> "Data", data |-> v]>>]

\* data.into_iter().map(..).collect::<Result<Vec<_>>>(): the tuple sets in
\* input order, or the error of the first row that is refused
RECURSIVE CollectRows(_, _)
CollectRows(rows, n_fields) ==
    IF rows = <<>> THEN [ok |-> TRUE, values |-> <<>>, err |-> Scalar(0)]
    ELSE LET v == Head(rows)
         IN IF IntoVecOk(v) /\ Len(v.items) = n_fields
            THEN LET rest == CollectRows(Tail(rows), n_fields)
                 IN IF rest.ok
                    THEN [rest EXCEPT !.values = <<TupleSetOf(v.items)>> \o @]
                    ELSE rest
            ELSE [ok |-> FALSE, values |-> <<>>, err |-> v]

RaOk(b) == [result |-> "none", built |-> b, err |-> Scalar(0)]
RaErr(res, e) == [result |-> res, built |-> NoneBuilt, err |-> e]

\* RaFromValues::build(ctx, prev, args)
RaFromValuesBuild(prev, args) ==
    IF prev # NoneBuilt THEN RaErr("Unchainable", Scalar(0))
    ELSE IF args.given < 2 THEN RaErr("NotEnoughArguments", Scalar(0))
    ELSE IF ~args.evals THEN RaErr("EvalError", Scalar(0))
    ELSE IF ~IntoVecOk(args.data) THEN RaErr("ValueError", args.data)
    ELSE LET binding_map == BindingMapOf(args.fields)
             n_fields == NFields(binding_map, args.fields)
             got == CollectRows(args.data.items, n_fields)
         IN IF got.ok
            THEN RaOk([name |-> NAME_RA_FROM_VALUES, binding |-> binding_map,
                       values |-> got.values])
            ELSE RaErr("ValueError", got.err)

\* one iteration of `for pair in pair.into_inner()`: Insert is todo!(), any
\* other name unimplemented!()
BuildOp(prev, name, args) ==
    IF name = NAME_RA_FROM_VALUES THEN RaFromValuesBuild(prev, args)
    ELSE RaErr("panic", Scalar(0))

\* the arguments an iteration has read when it ends
ArgsRead(prev, name, args, before) ==
    IF name = NAME_RA_FROM_VALUES /\ prev = NoneBuilt THEN args ELSE before

InitRaVars ==
    /\ p_pc = "loop"
    /\ p_chain = <<>>
    /\ p_args = NoArgs
    /\ built = NoneBuilt
    /\ p_result = "none"
    /\ p_err = Scalar(0)

BuildNextOp ==
    /\ p_pc = "loop"
    /\ Len(p_chain) < MaxOps
    /\ \E name \in OpNames, args \in ArgChoices :
         LET st == BuildOp(built, name, args)
         IN /\ p_chain' = Append(p_chain, name)
            /\ p_args' = ArgsRead(built, name, args, p_args)
            /\ built' = st.built
            /\ p_result' = st.result
            /\ p_err' = st.err
            /\ p_pc' = IF st.result = "none" THEN "loop" ELSE "done"
    /\ UNCHANGED <<cvars, dvars, svars, qvars>>

\* Ok(built.unwrap())
BuildReturn ==
    /\ p_pc = "loop"
    /\ Len(p_chain) >= 1
    /\ p_result' = IF built = NoneBuilt THEN "panic" ELSE "Ok"
    /\ p_pc' = "done"
    /\ UNCHANGED <<p_chain, p_args, built, p_err>>
    /\ UNCHANGED <<cvars, dvars, svars, qvars>>

NextRa == BuildNextOp \/ BuildReturn

\* ------------------------------------------------------------------------
\* Properties of build_ra_expr
\* ------------------------------------------------------------------------
\* the data is a list whose rows are lists as long as the schema's field list
RowFits(row) == row.list /\ Len(row.items) = Len(p_args.fields)

RowsFit ==
    /\ p_args.given = 2
    /\ p_args.evals
    /\ p_args.data.list
    /\ \A i \in 1..Len(p_args.data.items) : RowFits(p_args.data.items[i])

ValuesSucceeded == p_pc = "loop" \/ p_result = "Ok"

\* what the claim of C14 says of a chain that begins with a Values operator
ValuesContract ==
    /\ p_chain = <<NAME_RA_FROM_VALUES>>
          => /\ ValuesSucceeded <=> RowsFit
             /\ ValuesSucceeded
                   => /\ Len(built.values) = Len(p_args.data.items)
                      /\ \A i \in 1..Len(built.values) :
                            built.values[i] = TupleSetOf(p_args.data.items[i].items)
             /\ (p_args.given = 2 /\ p_args.evals /\ p_args.data.list /\ ~RowsFit)
                   => p_result = "ValueError"
    /\ p_chain = <<NAME_RA_FROM_VALUES, NAME_RA_FROM_VALUES>> => p_result = "Unchainable"

\* C14: build_ra_expr on a single Values operator succeeds exactly when the
\* data is a list of lists, each as long as the field list of the schema, and
\* then holds one tuple set per row in input order; a row of another length or
\* a row that is no list gives ValueError, and a Values operator after another
\* operator gives Unchainable.
C14_ValuesRowsMatchSchema == ValuesContract

\* the same for the schemas that name no field twice
ValuesDistinctFields == IsDistinct(p_args.fields) => ValuesContract

\* ========================================================================
\* Specifications
\* ========================================================================
\* the compilation of one rule body
InitCompile ==
    /\ InitCompileVars
    /\ ret_vars \in RetVarChoices
    /\ InitDbVars
    /\ InitScanVars
    /\ InitQueryVars
    /\ InitRaVars

SpecCompile == InitCompile /\ [][CompileNextClause \/ CompileReturn]_vars

\* threads using the handles of one database
InitDb ==
    /\ InitDbVars
    /\ InitCompileVars
    /\ ret_vars = <<VarX>>
    /\ InitScanVars
    /\ InitQueryVars
    /\ InitRaVars

SpecDb == InitDb /\ [][NextDb]_vars


\* one entities_at scan of a store filled by committed writes
InitScan ==
    /\ InitScanVars
    /\ InitCompileVars
    /\ ret_vars = <<VarX>>
    /\ InitDbVars
    /\ InitQueryVars
    /\ InitRaVars

SpecScan == InitScan /\ [][NextScan]_vars

\* the same scan over a store that may also hold triples of a retracted
\* attribute and triples with the minimum validity
SpecScanAny == InitScan /\ [][NextScanAny]_vars

\* the entry extraction of one run_query call
InitQuery ==
    /\ InitQueryVars
    /\ InitCompileVars
    /\ ret_vars = <<VarX>>
    /\ InitDbVars
    /\ InitScanVars
    /\ InitRaVars

SpecQuery == InitQuery /\ [][NextQuery]_vars

\* build_ra_expr on one chain of operators
InitRa ==
    /\ InitRaVars
    /\ InitCompileVars
    /\ ret_vars = <<VarX>>
    /\ InitDbVars
    /\ InitScanVars
    /\ InitQueryVars

SpecRa == InitRa /\ [][NextRa]_vars

====
